---- MODULE Spec2Model ----
(***************************************************************************)
(* TimeKiosk server: the four server programs of the repository            *)
(*   PgFull  src/server.js:1-476        PostgreSQL REST API (rich settings) *)
(*   RxRest  src/server.js:478-735      RxDB in-memory REST API             *)
(*   RxSync  src/unnamed/part_000       RxDB in-memory sync pull/push       *)
(*   PgLite  src/unnamed/part_001       PostgreSQL REST API (4 settings     *)
(*                                      columns, no /time, no /verify)      *)
(* modelled as one state machine whose Init picks the program that runs.   *)
(***************************************************************************)
EXTENDS Integers, Sequences, FiniteSets, TLC

VARIABLES
    variant,   \* which of the four programs is running
    secret,    \* process.env.SERVER_SECRET / SYNC_TOKEN as a JS value
    phase,     \* process life cycle: "starting", "listening", "exited"
    dbState,   \* the store handle: "undefined", "created", "ready"
    db,        \* the record store: table / collection name -> set of rows
    now,       \* the store's clock (CURRENT_TIMESTAMP)
    req,       \* the requests received so far, in order, each with its progress
               \* and its answer
    scope,     \* the collection kind the clients of this behaviour work on
    client,    \* the Authorization header the client of this behaviour holds
    lastWrite, \* history: the request whose store call last changed the store
    tz         \* the time zone of the server process, in hours east of UTC

vars == <<variant, secret, phase, dbState, db, now, req, scope, client, lastWrite, tz>>

(***************************************************************************)
(* Bounds of the model.                                                    *)
(***************************************************************************)
MaxReq == 2        \* requests received in one behaviour
MaxAuthReq == 1    \* requests received in one behaviour of SpecAuth
MaxClock == 1      \* ticks of the store clock
MaxBatch == 2      \* entries of one sync push
MaxHdrLen == 3     \* characters of an Authorization header
MaxRestReq == 3    \* requests received in one behaviour of SpecRest

(***************************************************************************)
(* JavaScript / JSON / SQL values, tagged by type.                         *)
(***************************************************************************)
Undef == [t |-> "undefined"]
Null == [t |-> "null"]
Str(s) == [t |-> "string", v |-> s]
Bool(b) == [t |-> "boolean", v |-> b]
Num(n) == [t |-> "number", v |-> n]
Arr(a) == [t |-> "array", v |-> a]
JsonText(a) == [t |-> "jsontext", v |-> a]
Timestamp(x) == [t |-> "timestamp", v |-> x]

\* JS truthiness: undefined, null, false, "" and 0 are falsy.
Falsy(x) ==
    \/ x.t \in {"undefined", "null"}
    \/ x.t = "boolean" /\ x.v = FALSE
    \/ x.t = "string" /\ x.v = ""
    \/ x.t = "number" /\ x.v = 0
    \/ x.t = "text" /\ x.v = <<>>

\* a || b
Or(a, b) == IF Falsy(a) THEN b ELSE a

(***************************************************************************)
(* The four programs and their configuration.                              *)
(***************************************************************************)
Variants == {"PgFull", "PgLite", "RxRest", "RxSync"}

IsPg(v) == v \in {"PgFull", "PgLite"}

\* const validCollections = [...]
validCollections == {"employees", "timerecords", "locations", "departments", "settings"}

\* The collections initDB registers with db.addCollections: the sync server
\* registers time_records where the REST server registers timerecords.
addCollections(v) ==
    IF v = "RxSync"
    THEN {"employees", "time_records", "locations", "departments", "settings"}
    ELSE validCollections

\* The names of the tables (PostgreSQL) or collections (RxDB) of a program.
Tables(v) == IF IsPg(v) THEN validCollections ELSE addCollections(v)

\* Own and inherited properties of the RxDatabase object that are not
\* collections: db[name] is truthy for them although no collection has the name.
DbObjectProps == {"constructor", "name"}

\* The schema a collection name is registered with (schemas.employee, ...).
KindOf(c) == IF c = "time_records" THEN "timerecords" ELSE c

(***************************************************************************)
(* Wire (camelCase) fields and storage (snake_case) columns.                *)
(***************************************************************************)
EmployeeFields ==
    {"id", "name", "pin", "imageUrl", "archived", "autoDeductLunch",
     "locationId", "departmentId", "isTemp", "tempAgency"}

TimeRecordFields == {"id", "employeeId", "locationId", "clockIn", "clockOut", "breaks"}

LocationFields == {"id", "name", "abbreviation"}

DepartmentFields == {"id", "name"}

SettingsLiteFields == {"id", "logoUrl", "weekStartDay", "remoteDbUrl"}

SettingsFullFields ==
    SettingsLiteFields \cup
    {"enableScreenSaver", "kioskLocationId", "clockFormat", "allowEmployeePhotoUpload",
     "timeoutStatus", "timeoutTimecard", "timeoutConfirmation",
     "timeoutAdminDashboard", "timeoutAdminLogin"}

\* The fields dbToApi returns (PostgreSQL) or the schema declares (RxDB).
ApiFields(v, c) ==
    CASE KindOf(c) = "employees" -> EmployeeFields
      [] KindOf(c) = "timerecords" -> TimeRecordFields
      [] KindOf(c) = "locations" -> LocationFields
      [] KindOf(c) = "departments" -> DepartmentFields
      [] KindOf(c) = "settings" ->
            IF v = "PgFull" THEN SettingsFullFields ELSE SettingsLiteFields

\* The keys a JSON request body of the model can carry.
BodyFields(c) ==
    IF KindOf(c) = "settings" THEN SettingsFullFields ELSE ApiFields("PgFull", c)

\* snake_case column of a camelCase field.
ColOf ==
    [id |-> "id", name |-> "name", pin |-> "pin", imageUrl |-> "image_url",
     archived |-> "archived", autoDeductLunch |-> "auto_deduct_lunch",
     locationId |-> "location_id", departmentId |-> "department_id",
     isTemp |-> "is_temp", tempAgency |-> "temp_agency",
     employeeId |-> "employee_id", clockIn |-> "clock_in", clockOut |-> "clock_out",
     breaks |-> "breaks", abbreviation |-> "abbreviation",
     logoUrl |-> "logo_url", weekStartDay |-> "week_start_day",
     remoteDbUrl |-> "remote_db_url", enableScreenSaver |-> "enable_screen_saver",
     kioskLocationId |-> "kiosk_location_id", clockFormat |-> "clock_format",
     allowEmployeePhotoUpload |-> "allow_employee_photo_upload",
     timeoutStatus |-> "timeout_status", timeoutTimecard |-> "timeout_timecard",
     timeoutConfirmation |-> "timeout_confirmation",
     timeoutAdminDashboard |-> "timeout_admin_dashboard",
     timeoutAdminLogin |-> "timeout_admin_login"]

\* Columns a handler's INSERT names, in storage form.
DataCols(v, c) == {ColOf[f] : f \in ApiFields(v, c)}

\* CREATE TABLE: columns declared NOT NULL (the primary key included).
NotNullCols(c) ==
    CASE c = "employees" -> {"id", "name", "pin"}
      [] c = "timerecords" -> {"id", "employee_id", "clock_in"}
      [] c = "locations" -> {"id", "name"}
      [] c = "departments" -> {"id", "name"}
      [] c = "settings" -> {"id"}

\* CREATE TABLE: tables that carry an updated_at column.
HasUpdatedAt(c) == c \in {"employees", "timerecords", "settings"}

\* CREATE TABLE: columns of TIMESTAMP type among the data columns.
TimestampCols == {"clock_in", "clock_out"}

\* All columns of a table.
Columns(v, c) ==
    DataCols(v, c) \cup {"created_at"} \cup
    (IF HasUpdatedAt(c) THEN {"updated_at"} ELSE {})

(***************************************************************************)
(* Auth gate.                                                              *)
(***************************************************************************)
\* A header, token or secret string is a sequence of one-character strings.
Text(cs) == [t |-> "text", v |-> cs]

RECURSIVE SplitFrom(_, _, _, _)
\* String.prototype.split(sep) on the characters cs from position i on, cur being
\* the piece read so far.
SplitFrom(cs, sep, i, cur) ==
    IF i > Len(cs) THEN <<cur>>
    ELSE IF cs[i] = sep THEN <<cur>> \o SplitFrom(cs, sep, i + 1, <<>>)
    ELSE SplitFrom(cs, sep, i + 1, Append(cur, cs[i]))

\* authHeader.split(' ')
Split(cs, sep) == SplitFrom(cs, sep, 1, <<>>)

\* const token = authHeader && authHeader.split(' ')[1];
TokenOf(authHeader) ==
    IF Falsy(authHeader) THEN authHeader
    ELSE LET parts == Split(authHeader.v, " ")
         IN IF Len(parts) >= 2 THEN Text(parts[2]) ELSE Undef

\* authMiddleware with the comparison against the secret left out.
authMiddleware_NoCompare(authHeader, expectedToken) ==
    IF Falsy(TokenOf(authHeader)) THEN 401 ELSE 200

\* authMiddleware that compares the token even when no secret is configured.
authMiddleware_Strict(authHeader, expectedToken) ==
    LET token == TokenOf(authHeader)
    IN IF Falsy(token) THEN 401
       ELSE IF token # expectedToken THEN 403
       ELSE 200

\* The status authMiddleware answers with, 200 standing for a call of next().
authMiddleware(authHeader, expectedToken) ==
    LET token == TokenOf(authHeader)
    IN IF Falsy(token) THEN 401
       ELSE IF ~Falsy(expectedToken) /\ token # expectedToken THEN 403
       ELSE 200

(***************************************************************************)
(* Express routing: the first route of the program that matches.           *)
(***************************************************************************)
NoRoute == [handler |-> "none", guarded |-> FALSE, collection |-> "", id |-> ""]

RouteTo(h, g, c, i) == [handler |-> h, guarded |-> g, collection |-> c, id |-> i]

\* app.get('/:collection') and following: the CRUD routes, all behind authMiddleware.
CrudRoute(method, path) ==
    CASE method = "GET" /\ Len(path) = 1 -> RouteTo("list", TRUE, path[1], "")
      [] method = "GET" /\ Len(path) = 2 -> RouteTo("get", TRUE, path[1], path[2])
      [] method = "POST" /\ Len(path) = 1 -> RouteTo("create", TRUE, path[1], "")
      [] method = "PUT" /\ Len(path) = 2 -> RouteTo("upsert", TRUE, path[1], path[2])
      [] method = "DELETE" /\ Len(path) = 2 -> RouteTo("delete", TRUE, path[1], path[2])
      [] OTHER -> NoRoute

\* app.post('/sync/:collection/pull'), app.post('/sync/:collection/push'): no
\* authMiddleware in either.
SyncRoute(method, path) ==
    IF method = "POST" /\ Len(path) = 3 /\ path[1] = "sync" /\ path[3] \in {"pull", "push"}
    THEN RouteTo(path[3], FALSE, path[2], "")
    ELSE NoRoute

\* The route table of each program, in registration order.
Route(v, method, path) ==
    IF method = "GET" /\ path = <<>> THEN RouteTo("health", FALSE, "", "")
    ELSE IF v = "PgFull" /\ method = "GET" /\ path = <<"verify">>
    THEN RouteTo("verify", TRUE, "", "")
    ELSE IF v = "PgFull" /\ method = "GET" /\ path = <<"time">>
    THEN RouteTo("time", FALSE, "", "")
    ELSE IF v = "RxSync" THEN SyncRoute(method, path)
    ELSE CrudRoute(method, path)

(***************************************************************************)
(* Field mapper and the PostgreSQL statements of the handlers.             *)
(***************************************************************************)
FieldOf(col) == CHOOSE f \in DOMAIN ColOf : ColOf[f] = col

\* JSON.stringify of an array.
JSONstringify(x) == IF x.t = "array" THEN JsonText(x.v) ELSE x

\* A values array that passes every field of the body as it is.
HandlerValue_Plain(c, f, data) == data[f]

\* One element of a handler's values array, before it is bound to the statement.
HandlerValue(c, f, data) ==
    IF c = "employees" /\ f \in {"archived", "autoDeductLunch", "isTemp"}
    THEN Or(data[f], Bool(FALSE))
    ELSE IF c = "timerecords" /\ f = "breaks"
    THEN JSONstringify(Or(data[f], Arr(<<>>)))
    ELSE data[f]

\* The date-time strings of the model, one hour apart.
Instants ==
    <<"2024-01-01T07:00:00.000Z", "2024-01-01T08:00:00.000Z",
      "2024-01-01T09:00:00.000Z", "2024-01-01T10:00:00.000Z",
      "2024-01-01T11:00:00.000Z">>

\* Time zones of the server process: UTC, or one hour east of it.
TzOffsets == {0, 1}

\* The wall-clock time a TIMESTAMP (without time zone) column reads from a
\* date-time string: the zone designator is ignored.
WallClock(s) == CHOOSE n \in 1..Len(Instants) : Instants[n] = s

\* node-postgres binds undefined as NULL; the column type parses the text it is
\* given (JSONB the JSON text, TIMESTAMP the date string).
PgBind(col, x) ==
    CASE x.t = "undefined" -> Null
      [] x.t = "jsontext" -> Arr(x.v)
      [] x.t = "string" /\ col \in TimestampCols -> Timestamp(WallClock(x.v))
      [] OTHER -> x

\* app.post('/:collection'): values = [data.id, data.name, ...]
PostValues(v, c, data) ==
    [col \in DataCols(v, c) |-> PgBind(col, HandlerValue(c, FieldOf(col), data))]

\* A PUT that writes under the id of the path, whatever id the body carries.
PutValues_PathId(v, c, data, id) ==
    [col \in DataCols(v, c) |->
        IF col = "id" THEN PgBind(col, Str(id))
        ELSE PgBind(col, HandlerValue(c, FieldOf(col), data))]

\* app.put('/:collection/:id'): values = [data.id || id, data.name, ...]
PutValues(v, c, data, id) ==
    [col \in DataCols(v, c) |->
        IF col = "id" THEN PgBind(col, Or(data.id, Str(id)))
        ELSE PgBind(col, HandlerValue(c, FieldOf(col), data))]

\* function dbToApi(row, collection)
dbToApi(v, row, c) ==
    [f \in ApiFields(v, c) |->
        IF c = "timerecords" /\ f = "breaks" THEN Or(row[ColOf[f]], Arr(<<>>))
        ELSE row[ColOf[f]]]

\* res.json(obj). A TIMESTAMP value has been read by node-postgres as a Date in
\* the zone z of the process and is written as its ISO string in UTC.
ResJson(obj, z) ==
    [f \in DOMAIN obj |->
        IF obj[f].t = "timestamp" THEN Str(Instants[obj[f].v - z]) ELSE obj[f]]

\* The rows of a table with a given primary key value.
RowsWithId(table, idv) == {r \in table : r.id = idv}

\* A statement's outcome: ok, the table afterwards, the rows RETURNING gives.
Outcome(ok, table, rows) == [ok |-> ok, table |-> table, rows |-> rows]

\* NOT NULL constraints of CREATE TABLE on a proposed row.
ViolatesNotNull(c, vals) == \E col \in NotNullCols(c) : vals[col] = Null

\* A freshly inserted row: the values, created_at and updated_at by DEFAULT.
NewRow(v, c, vals, t) ==
    [col \in Columns(v, c) |->
        IF col \in DOMAIN vals THEN vals[col] ELSE Timestamp(t)]

\* INSERT on a table whose id column is no primary key.
PgInsert_NoKey(v, c, table, vals, t) ==
    IF ViolatesNotNull(c, vals) THEN Outcome(FALSE, table, {})
    ELSE Outcome(TRUE, table \cup {NewRow(v, c, vals, t)}, {NewRow(v, c, vals, t)})

\* INSERT INTO c (...) VALUES (...) RETURNING *
PgInsert(v, c, table, vals, t) ==
    IF ViolatesNotNull(c, vals) \/ RowsWithId(table, vals.id) # {}
    THEN Outcome(FALSE, table, {})
    ELSE Outcome(TRUE, table \cup {NewRow(v, c, vals, t)}, {NewRow(v, c, vals, t)})

\* An update that keeps the old value of every column the statement gives NULL.
UpdatedRow_Merge(v, c, old, vals, t) ==
    [col \in Columns(v, c) |->
        IF col \in DOMAIN vals
        THEN (IF vals[col] = Null THEN old[col] ELSE vals[col])
        ELSE IF col = "updated_at" THEN Timestamp(t)
        ELSE old[col]]

\* An update that writes the row anew, created_at included.
UpdatedRow_Recreate(v, c, old, vals, t) ==
    [col \in Columns(v, c) |-> IF col \in DOMAIN vals THEN vals[col] ELSE Timestamp(t)]

\* ON CONFLICT (id) DO UPDATE SET col = EXCLUDED.col, ... [, updated_at = CURRENT_TIMESTAMP]
UpdatedRow(v, c, old, vals, t) ==
    [col \in Columns(v, c) |->
        IF col \in DOMAIN vals THEN vals[col]
        ELSE IF col = "updated_at" THEN Timestamp(t)
        ELSE old[col]]

\* INSERT INTO c (...) VALUES (...) ON CONFLICT (id) DO UPDATE SET ... RETURNING *
PgUpsert(v, c, table, vals, t) ==
    IF ViolatesNotNull(c, vals) THEN Outcome(FALSE, table, {})
    ELSE IF RowsWithId(table, vals.id) = {}
    THEN Outcome(TRUE, table \cup {NewRow(v, c, vals, t)}, {NewRow(v, c, vals, t)})
    ELSE LET hit == RowsWithId(table, vals.id)
             new == {UpdatedRow(v, c, old, vals, t) : old \in hit}
         IN Outcome(TRUE, (table \ hit) \cup new, new)

\* A DELETE that has lost its WHERE clause.
PgDelete_All(table, id) == Outcome(TRUE, {}, table)

\* DELETE FROM c WHERE id = $1 RETURNING *
PgDelete(table, id) ==
    Outcome(TRUE, table \ RowsWithId(table, Str(id)), RowsWithId(table, Str(id)))

\* A SELECT that has lost its WHERE clause.
PgSelectOne_Any(table, id) == Outcome(TRUE, table, table)

\* SELECT * FROM c WHERE id = $1
PgSelectOne(table, id) == Outcome(TRUE, table, RowsWithId(table, Str(id)))

\* SELECT * FROM c
PgSelectAll(table) == Outcome(TRUE, table, table)

(***************************************************************************)
(* RxDB collection methods, as the handlers call them.                     *)
(***************************************************************************)
\* A document needs a non-empty string primary key.
HasPrimary(doc) == doc.id.t = "string" /\ doc.id.v # ""

\* db[collection].insert(req.body): rejects a missing primary key and a conflict.
RxInsert(coll, doc) ==
    IF ~HasPrimary(doc) \/ RowsWithId(coll, doc.id) # {}
    THEN Outcome(FALSE, coll, {})
    ELSE Outcome(TRUE, coll \cup {doc}, {doc})

\* An upsert that keeps the document already stored under the primary key.
RxUpsert_KeepExisting(coll, doc) ==
    IF ~HasPrimary(doc) THEN Outcome(FALSE, coll, {})
    ELSE IF RowsWithId(coll, doc.id) # {} THEN Outcome(TRUE, coll, RowsWithId(coll, doc.id))
    ELSE Outcome(TRUE, coll \cup {doc}, {doc})

\* db[collection].upsert(doc): rejects a missing primary key, else inserts the
\* document or overwrites the one stored under its primary key.
RxUpsert(coll, doc) ==
    IF ~HasPrimary(doc) THEN Outcome(FALSE, coll, {})
    ELSE Outcome(TRUE, (coll \ RowsWithId(coll, doc.id)) \cup {doc}, {doc})

\* db[collection].findOne(id).exec()
RxFindOne(coll, id) == Outcome(TRUE, coll, RowsWithId(coll, Str(id)))

\* db[collection].find().exec()
RxFind(coll) == Outcome(TRUE, coll, coll)

\* doc.remove(): rejects (conflict) when the document read by findOne is no
\* longer the stored one.
RxRemove(coll, doc) ==
    IF doc \in coll THEN Outcome(TRUE, coll \ {doc}, {doc}) ELSE Outcome(FALSE, coll, {})

(***************************************************************************)
(* Inputs: the requests clients send.                                      *)
(***************************************************************************)
Scopes == validCollections

\* Collection names that are none of the five kinds.
UnknownNames == {"bogus", "constructor"}

\* Record ids the requests carry: one that initDB seeds (PostgreSQL), one fresh.
ReqIds(c) ==
    CASE c = "employees" -> {"EMP001", "EMP010"}
      [] KindOf(c) = "timerecords" -> {"TR001", "TR002"}
      [] c = "locations" -> {"LOC001", "LOC099"}
      [] c = "departments" -> {"DEP001", "DEP009"}
      [] c = "settings" -> {"GLOBAL_SETTINGS", "KIOSK2"}
      [] OTHER -> {"X001"}

BoolFields == {"archived", "autoDeductLunch", "isTemp", "enableScreenSaver",
               "allowEmployeePhotoUpload"}

NumFields == {"weekStartDay", "timeoutStatus", "timeoutTimecard", "timeoutConfirmation",
              "timeoutAdminDashboard", "timeoutAdminLogin"}

\* schemas.*.required
RequiredFields(c) ==
    CASE KindOf(c) = "employees" -> {"id", "name", "pin"}
      [] KindOf(c) = "timerecords" -> {"id", "employeeId", "clockIn"}
      [] KindOf(c) = "locations" -> {"id", "name"}
      [] KindOf(c) = "departments" -> {"id", "name"}
      [] KindOf(c) = "settings" -> {"id"}

\* The k-th sample value of a field, of the field's JSON type.
ValueOf(f, k) ==
    CASE f \in BoolFields -> Bool(k = 1)
      [] f \in NumFields -> Num(k)
      [] f = "breaks" ->
            IF k = 1 THEN Arr(<<[start |-> Instants[3], end |-> Instants[4]]>>)
            ELSE Arr(<<>>)
      [] f \in {"clockIn", "clockOut"} -> Str(Instants[k + 1])
      [] f = "clockFormat" -> IF k = 1 THEN Str("24") ELSE Str("12")
      [] OTHER -> Str(f \o ToString(k))

NoBody == <<>>

IsKnownKind(c) == KindOf(c) \in validCollections

\* A body that carries exactly the fields in fs, with their k-th values.
BodyWith(c, fs, k) ==
    [f \in BodyFields(c) |-> IF f \in fs THEN ValueOf(f, k) ELSE Undef]

WithId(b, idv) == [b EXCEPT !.id = idv]

\* Body ids: none, or one of the ids of the collection.
BodyIds(c) == {Undef} \cup {Str(i) : i \in ReqIds(c)}

\* An entry of a push batch: a document, or a write row wrapping it.
PlainEntry(doc) ==
    [self |-> doc, newDocumentState |-> Undef, assumedMasterState |-> Undef]

WrappedEntry(doc, assumed) ==
    [self |-> NoBody, newDocumentState |-> [t |-> "object", v |-> doc],
     assumedMasterState |-> assumed]

RECURSIVE SeqsUpTo(_, _)
\* All sequences over S of length at most n.
SeqsUpTo(S, n) ==
    IF n = 0 THEN {<<>>}
    ELSE LET shorter == SeqsUpTo(S, n - 1)
         IN shorter \cup {Append(q, x) : q \in shorter, x \in S}

Msg(method, path, body) == [method |-> method, path |-> path, body |-> body]

PlainMsgs == {Msg("GET", p, NoBody) : p \in {<<>>, <<"time">>, <<"verify">>}}

\* Authorization headers: none, or any string of at most MaxHdrLen characters.
HdrChars == {" ", "s", "w"}

Headers == {Undef} \cup {Text(cs) : cs \in SeqsUpTo(HdrChars, MaxHdrLen)}

\* The configured secret: unset, or the string "s".
Secrets == {Undef, Text(<<"s">>)}

NoHeader == Undef

GoodHeader == Text(<<"s", " ", "s">>)

(***************************************************************************)
(* Store initialisation.                                                   *)
(***************************************************************************)
\* CREATE TABLE: the DEFAULT of a column an INSERT does not name.
ColumnDefault(col, t) ==
    CASE col \in {"archived", "auto_deduct_lunch", "is_temp",
                  "allow_employee_photo_upload"} -> Bool(FALSE)
      [] col = "enable_screen_saver" -> Bool(TRUE)
      [] col = "breaks" -> Arr(<<>>)
      [] col = "week_start_day" -> Num(0)
      [] col = "clock_format" -> Str("12")
      [] col = "timeout_status" -> Num(7)
      [] col = "timeout_timecard" -> Num(15)
      [] col = "timeout_confirmation" -> Num(7)
      [] col = "timeout_admin_dashboard" -> Num(60)
      [] col = "timeout_admin_login" -> Num(10)
      [] col \in {"created_at", "updated_at"} -> Timestamp(t)
      [] OTHER -> Null

\* A seeded row: the columns the seed INSERT names, the rest by DEFAULT.
SeedRow(v, c, given, t) ==
    [col \in Columns(v, c) |->
        IF col \in DOMAIN given THEN given[col] ELSE ColumnDefault(col, t)]

\* The VALUES lists of the seed INSERTs of initDB.
SeedValues(c) ==
    CASE c = "employees" ->
            {[id |-> Str("EMP001"), name |-> Str("Alice Johnson"), pin |-> Str("1234"),
              archived |-> Bool(FALSE)],
             [id |-> Str("EMP002"), name |-> Str("Bob Smith"), pin |-> Str("5678"),
              archived |-> Bool(FALSE)],
             [id |-> Str("EMP003"), name |-> Str("Charlie Brown"), pin |-> Str("1111"),
              archived |-> Bool(FALSE)]}
      [] c = "locations" ->
            {[id |-> Str("LOC001"), name |-> Str("Main Office"), abbreviation |-> Str("MO")],
             [id |-> Str("LOC002"), name |-> Str("Warehouse"), abbreviation |-> Str("WH")]}
      [] c = "departments" ->
            {[id |-> Str("DEP001"), name |-> Str("Engineering")],
             [id |-> Str("DEP002"), name |-> Str("Operations")]}
      [] c = "settings" ->
            {[id |-> Str("GLOBAL_SETTINGS"), week_start_day |-> Num(0),
              logo_url |-> Str(""), remote_db_url |-> Str("")]}
      [] OTHER -> {}

\* INSERT ... ON CONFLICT (id) DO NOTHING of the seed rows of one table.
SeedTable(v, c, table, t) ==
    table \cup {SeedRow(v, c, g, t) :
                  g \in {h \in SeedValues(c) : RowsWithId(table, h.id) = {}}}

\* async function initDB() of the PostgreSQL programs: the store afterwards.
initDB(v, d, t) ==
    IF d["employees"] = {}
    THEN [c \in DOMAIN d |-> SeedTable(v, c, d[c], t)]
    ELSE d

\* Truthiness of db[collection] in the RxDB programs.
DbHas(v, dbs, c) ==
    \/ dbs = "ready" /\ c \in addCollections(v)
    \/ dbs \in {"created", "ready"} /\ c \in DbObjectProps

(***************************************************************************)
(* Requests and responses.                                                 *)
(***************************************************************************)
Out(kind, docs, checkpoint) == [kind |-> kind, docs |-> docs, checkpoint |-> checkpoint]

NoOut == Out("none", {}, Undef)

ErrorOut == Out("error", {}, Undef)

OkOut == Out("ok", {}, Undef)

\* A request as received: route resolved, nothing answered yet.
Received(v, hdr, m) ==
    LET r == Route(v, m.method, m.path)
    IN [method |-> m.method, path |-> m.path, hdr |-> hdr, body |-> m.body,
        handler |-> r.handler, guarded |-> r.guarded,
        collection |-> r.collection, id |-> r.id,
        pc |-> "await", ran |-> FALSE, k |-> 1, found |-> {}, status |-> 0,
        out |-> NoOut]

\* res.status(status).json(out): the request is answered.
Answer(r, status, out) == [r EXCEPT !.pc = "done", !.status = status, !.out = out]

\* The handler threw outside any try block: no response is ever sent.
Hang(r) == [r EXCEPT !.pc = "hung"]

\* The route handler of the request starts to run (authMiddleware called next(),
\* or the route has no middleware).
Enter(r) == [r EXCEPT !.ran = TRUE]

\* app.get('/'): the status message of each program.
HealthMessage(v) ==
    CASE IsPg(v) -> "TimeKiosk Sync Server Running (PostgreSQL)"
      [] v = "RxRest" -> "TimeKiosk Sync Server Running (REST API)"
      [] v = "RxSync" -> "TimeKiosk Sync Server Running"

\* The body of a route handler up to its first await: the collection check and
\* the synchronous part of the try block.
HandlerPrefix(v, dbs, r) ==
    IF r.handler = "health"
    THEN Answer(r, 200, Out("status", {[status |-> Str(HealthMessage(v))]}, Undef))
    ELSE IF r.handler = "time" THEN Answer(r, 200, Out("time", {}, Undef))
    ELSE IF r.handler = "verify" THEN Answer(r, 200, OkOut)
    ELSE IF IsPg(v) /\ r.collection \notin validCollections
    THEN Answer(r, 404, ErrorOut)
    ELSE IF v = "RxSync" /\ dbs = "undefined" THEN Hang(r)
    ELSE IF ~IsPg(v) /\ ~DbHas(v, dbs, r.collection) THEN Answer(r, 404, ErrorOut)
    ELSE IF r.handler = "push" /\ r.body.v = <<>> THEN Answer(r, 200, OkOut)
    ELSE IF ~IsPg(v) /\ r.collection \notin addCollections(v)
    THEN Answer(r, 500, ErrorOut)
    ELSE r

\* What the program does with a request up to the first await: routing, the auth
\* gate of a guarded route, then the handler.
SyncPrefix(v, sec, dbs, hdr, m) ==
    LET r == Received(v, hdr, m)
        auth == IF r.guarded THEN authMiddleware(hdr, sec) ELSE 200
    IN IF r.handler = "none" THEN Answer(r, 404, ErrorOut)
       ELSE IF auth # 200 THEN Answer(r, auth, ErrorOut)
       ELSE HandlerPrefix(v, dbs, Enter(r))

(***************************************************************************)
(* The state machine.                                                      *)
(***************************************************************************)
TypeOK ==
    /\ variant \in Variants
    /\ secret \in Secrets
    /\ phase \in {"starting", "listening", "exited"}
    /\ dbState \in {"undefined", "created", "ready"}
    /\ DOMAIN db = Tables(variant)
    /\ now \in 0..MaxClock
    /\ Len(req) <= (IF MaxReq > MaxRestReq THEN MaxReq ELSE MaxRestReq)
    /\ scope \in Scopes
    /\ client \in Headers
    /\ lastWrite \in 0..Len(req)
    /\ tz \in TzOffsets

\* The state when the program of one of the variants in vs has been loaded:
\* the PostgreSQL programs listen once initDB has resolved, the RxDB programs
\* call initDB() without awaiting it and listen at once.
InitOf(vs, secs, scs, hs) ==
    /\ variant \in vs
    /\ secret \in secs
    /\ phase = IF IsPg(variant) THEN "starting" ELSE "listening"
    /\ dbState = "undefined"
    /\ db = [c \in Tables(variant) |-> {}]
    /\ now = 0
    /\ req = <<>>
    /\ scope \in scs
    /\ client \in hs
    /\ lastWrite = 0
    /\ tz \in IF IsPg(variant) /\ scope = "timerecords" THEN TzOffsets ELSE {0}

\* initDB().then(listen) of the PostgreSQL programs.
PgInitDB ==
    /\ IsPg(variant) /\ phase = "starting"
    /\ db' = initDB(variant, db, now)
    /\ dbState' = "ready"
    /\ phase' = "listening"
    /\ UNCHANGED <<tz, variant, secret, now, req, scope, client, lastWrite>>

\* initDB().catch(process.exit(1)) of the PostgreSQL programs.
PgInitFails ==
    /\ IsPg(variant) /\ phase = "starting"
    /\ phase' = "exited"
    /\ UNCHANGED <<tz, variant, secret, dbState, db, now, req, scope, client, lastWrite>>

\* db = await createRxDatabase(...)
RxCreateDatabase ==
    /\ ~IsPg(variant) /\ phase = "listening" /\ dbState = "undefined"
    /\ dbState' = "created"
    /\ UNCHANGED <<tz, variant, secret, phase, db, now, req, scope, client, lastWrite>>

\* await db.addCollections(...)
RxAddCollections ==
    /\ ~IsPg(variant) /\ phase = "listening" /\ dbState = "created"
    /\ dbState' = "ready"
    /\ UNCHANGED <<tz, variant, secret, phase, db, now, req, scope, client, lastWrite>>

\* The store clock advances.
Tick ==
    /\ now < MaxClock
    /\ now' = now + 1
    /\ UNCHANGED <<tz, variant, secret, phase, dbState, db, req, scope, client, lastWrite>>

\* A request with a header of hs and a message of ms arrives, at most n in a
\* behaviour, and runs up to the handler's first await.
Receive(n, hs, ms) ==
    /\ phase = "listening" /\ Len(req) < n
    /\ \E hdr \in hs, m \in ms :
          req' = Append(req, SyncPrefix(variant, secret, dbState, hdr, m))
    /\ UNCHANGED <<tz, variant, secret, phase, dbState, db, now, scope, client, lastWrite>>

\* An unhandled promise rejection of a handler ends the process (Node 15 and
\* later); earlier runtimes only warn and this step never happens.
Crash ==
    /\ phase = "listening"
    /\ \E s \in DOMAIN req : req[s].pc = "hung"
    /\ phase' = "exited"
    /\ UNCHANGED <<tz, variant, secret, dbState, db, now, req, scope, client, lastWrite>>

Awaiting(s, handler) ==
    /\ phase = "listening"
    /\ req[s].pc = "await"
    /\ req[s].handler = handler

\* The wire documents a handler answers with for a set of stored rows.
WireDocs(v, c, rows) ==
    IF IsPg(v) THEN {ResJson(dbToApi(v, row, c), tz) : row \in rows} ELSE rows

\* GET /:collection
ExecList(s) ==
    /\ Awaiting(s, "list")
    /\ LET c == req[s].collection
           res == IF IsPg(variant) THEN PgSelectAll(db[c]) ELSE RxFind(db[c])
       IN req' = [req EXCEPT ![s] =
                    Answer(@, 200, Out("docs", WireDocs(variant, c, res.rows), Undef))]
    /\ UNCHANGED <<tz, variant, secret, phase, dbState, db, now, scope, client, lastWrite>>

\* GET /:collection/:id
ExecGet(s) ==
    /\ Awaiting(s, "get")
    /\ LET c == req[s].collection
           res == IF IsPg(variant) THEN PgSelectOne(db[c], req[s].id)
                  ELSE RxFindOne(db[c], req[s].id)
       IN req' = [req EXCEPT ![s] =
                    IF res.rows = {} THEN Answer(@, 404, ErrorOut)
                    ELSE Answer(@, 200, Out("doc", WireDocs(variant, c, res.rows), Undef))]
    /\ UNCHANGED <<tz, variant, secret, phase, dbState, db, now, scope, client, lastWrite>>

\* The store call of the create handler.
CreateCall(v, c, table, body, t) ==
    IF IsPg(v) THEN PgInsert(v, c, table, PostValues(v, c, body), t)
    ELSE RxInsert(table, body)

\* POST /:collection
ExecCreate(s) ==
    /\ Awaiting(s, "create")
    /\ LET c == req[s].collection
           res == CreateCall(variant, c, db[c], req[s].body, now)
       IN /\ db' = [db EXCEPT ![c] = res.table]
          /\ lastWrite' = IF res.ok THEN s ELSE lastWrite
          /\ req' = [req EXCEPT ![s] =
                       IF res.ok
                       THEN Answer(@, 201, Out("doc", WireDocs(variant, c, res.rows), Undef))
                       ELSE Answer(@, 500, ErrorOut)]
    /\ UNCHANGED <<tz, variant, secret, phase, dbState, now, scope, client>>

\* The store call of the upsert handler.
UpsertCall(v, c, table, body, id, t) ==
    IF IsPg(v) THEN PgUpsert(v, c, table, PutValues(v, c, body, id), t)
    ELSE RxUpsert(table, body)

\* PUT /:collection/:id
ExecUpsert(s) ==
    /\ Awaiting(s, "upsert")
    /\ LET c == req[s].collection
           res == UpsertCall(variant, c, db[c], req[s].body, req[s].id, now)
       IN /\ db' = [db EXCEPT ![c] = res.table]
          /\ lastWrite' = IF res.ok THEN s ELSE lastWrite
          /\ req' = [req EXCEPT ![s] =
                       IF res.ok
                       THEN Answer(@, 200, Out("doc", WireDocs(variant, c, res.rows), Undef))
                       ELSE Answer(@, 500, ErrorOut)]
    /\ UNCHANGED <<tz, variant, secret, phase, dbState, now, scope, client>>

\* DELETE /:collection/:id of the PostgreSQL programs: one statement.
ExecDelete(s) ==
    /\ Awaiting(s, "delete") /\ IsPg(variant)
    /\ LET c == req[s].collection
           res == PgDelete(db[c], req[s].id)
       IN /\ db' = [db EXCEPT ![c] = res.table]
          /\ lastWrite' = IF res.rows # {} THEN s ELSE lastWrite
          /\ req' = [req EXCEPT ![s] =
                       IF res.rows = {} THEN Answer(@, 404, ErrorOut)
                       ELSE Answer(@, 200, OkOut)]
    /\ UNCHANGED <<tz, variant, secret, phase, dbState, now, scope, client>>

\* DELETE /:collection/:id of the RxDB program, first await: findOne(id).exec()
ExecFindForDelete(s) ==
    /\ Awaiting(s, "delete") /\ ~IsPg(variant) /\ req[s].k = 1
    /\ LET res == RxFindOne(db[req[s].collection], req[s].id)
       IN req' = [req EXCEPT ![s] =
                    IF res.rows = {} THEN Answer(@, 404, ErrorOut)
                    ELSE [@ EXCEPT !.k = 2, !.found = res.rows]]
    /\ UNCHANGED <<tz, variant, secret, phase, dbState, db, now, scope, client, lastWrite>>

\* DELETE /:collection/:id of the RxDB program, second await: doc.remove()
ExecRemove(s) ==
    /\ Awaiting(s, "delete") /\ ~IsPg(variant) /\ req[s].k = 2
    /\ LET c == req[s].collection
           doc == CHOOSE d \in req[s].found : TRUE
           res == RxRemove(db[c], doc)
       IN /\ db' = [db EXCEPT ![c] = res.table]
          /\ lastWrite' = IF res.ok THEN s ELSE lastWrite
          /\ req' = [req EXCEPT ![s] =
                       IF res.ok THEN Answer(@, 200, OkOut) ELSE Answer(@, 500, ErrorOut)]
    /\ UNCHANGED <<tz, variant, secret, phase, dbState, now, scope, client>>

\* Primary keys in the order RxDB sorts them (ascending).
IdsSorted ==
    <<"DEP001", "DEP009", "EMP001", "EMP010", "GLOBAL_SETTINGS", "KIOSK2",
      "LOC001", "LOC099", "TR001", "TR002", "X001">>

IdRank(idv) == CHOOSE n \in 1..Len(IdsSorted) : IdsSorted[n] = idv.v

\* const lastDoc = docs[docs.length - 1], docs being sorted by primary key.
LastDoc(docs) == CHOOSE d \in docs : \A e \in docs : IdRank(e.id) <= IdRank(d.id)

\* A pull that echoes the checkpoint of the request whatever it returns.
NewCheckpoint_Echo(docs, checkpoint, t) == checkpoint

\* const newCheckpoint = lastDoc ? { id: lastDoc.id, updatedAt: new Date().getTime() }
\*                               : checkpoint;
NewCheckpoint(docs, checkpoint, t) ==
    IF docs = {} THEN checkpoint
    ELSE [t |-> "object", v |-> [id |-> LastDoc(docs).id.v, updatedAt |-> t]]

\* A pull that answers only the documents after the checkpoint's id.
ExecPull_Since(s) ==
    /\ Awaiting(s, "pull")
    /\ LET res == RxFind(db[req[s].collection])
           ck == req[s].body.checkpoint
           since == IF Falsy(ck) THEN res.rows
                    ELSE {d \in res.rows : IdRank(d.id) > IdRank(Str(ck.v.id))}
       IN req' = [req EXCEPT ![s] =
                    Answer(@, 200, Out("docs", since, NewCheckpoint(since, ck, now)))]
    /\ UNCHANGED <<tz, variant, secret, phase, dbState, db, now, scope, client, lastWrite>>

\* POST /sync/:collection/pull
ExecPull(s) ==
    /\ Awaiting(s, "pull")
    /\ LET res == RxFind(db[req[s].collection])
       IN req' = [req EXCEPT ![s] =
                    Answer(@, 200, Out("docs", res.rows,
                                       NewCheckpoint(res.rows, @.body.checkpoint, now)))]
    /\ UNCHANGED <<tz, variant, secret, phase, dbState, db, now, scope, client, lastWrite>>

\* changes.map(c => c.newDocumentState || c)
PushDoc(entry) ==
    IF Falsy(entry.newDocumentState) THEN entry.self ELSE entry.newDocumentState.v

\* A push that is all or nothing: when an entry fails, the entries of the batch
\* applied so far are taken out of the collection again.
ExecPush_Atomic(s) ==
    /\ Awaiting(s, "push")
    /\ LET c == req[s].collection
           res == RxUpsert(db[c], PushDoc(req[s].body.v[req[s].k]))
           applied == {PushDoc(req[s].body.v[j]) : j \in 1..(req[s].k - 1)}
       IN /\ db' = [db EXCEPT ![c] = IF res.ok THEN res.table ELSE @ \ applied]
          /\ lastWrite' = IF res.ok THEN s ELSE lastWrite
          /\ req' = [req EXCEPT ![s] =
                       IF ~res.ok THEN Answer(@, 500, ErrorOut)
                       ELSE IF @.k = Len(@.body.v) THEN Answer(@, 200, OkOut)
                       ELSE [@ EXCEPT !.k = @ + 1]]
    /\ UNCHANGED <<tz, variant, secret, phase, dbState, now, scope, client>>

\* POST /sync/:collection/push: one turn of the loop, await db[collection].upsert(doc)
ExecPush(s) ==
    /\ Awaiting(s, "push")
    /\ LET c == req[s].collection
           res == RxUpsert(db[c], PushDoc(req[s].body.v[req[s].k]))
       IN /\ db' = [db EXCEPT ![c] = res.table]
          /\ lastWrite' = IF res.ok THEN s ELSE lastWrite
          /\ req' = [req EXCEPT ![s] =
                       IF ~res.ok THEN Answer(@, 500, ErrorOut)
                       ELSE IF @.k = Len(@.body.v) THEN Answer(@, 200, OkOut)
                       ELSE [@ EXCEPT !.k = @ + 1]]
    /\ UNCHANGED <<tz, variant, secret, phase, dbState, now, scope, client>>

(***************************************************************************)
(* Request sets of the specifications.                                     *)
(***************************************************************************)
\* One id of a collection that initDB seeds in the PostgreSQL programs (any id
\* for timerecords, which has no seed).
SeededId(c) ==
    CASE c = "employees" -> "EMP001"
      [] c = "locations" -> "LOC001"
      [] c = "departments" -> "DEP001"
      [] c = "settings" -> "GLOBAL_SETTINGS"
      [] OTHER -> CHOOSE i \in ReqIds(c) : TRUE

\* A body with every field, stored under the seeded id.
SampleBody(c) ==
    IF IsKnownKind(c) THEN WithId(BodyWith(c, BodyFields(c), 1), Str(SeededId(c)))
    ELSE NoBody

\* One request for each route of the programs, on one collection name.
RouteMsgs(c) ==
    {Msg("GET", <<c>>, NoBody),
     Msg("GET", <<c, SeededId(c)>>, NoBody),
     Msg("POST", <<c>>, SampleBody(c)),
     Msg("PUT", <<c, SeededId(c)>>, SampleBody(c)),
     Msg("DELETE", <<c, SeededId(c)>>, NoBody),
     Msg("POST", <<"sync", c, "pull">>, [checkpoint |-> Null, limit |-> Undef]),
     Msg("POST", <<"sync", c, "push">>, Arr(<<PlainEntry(SampleBody(c))>>))}

\* DELETE /:collection/:id of the RxDB program: its two awaits.
ExecRxDelete(s) == ExecFindForDelete(s) \/ ExecRemove(s)

(***************************************************************************)
(* SpecAuth: every Authorization header against every route.               *)
(***************************************************************************)
InitAuth == InitOf(Variants, Secrets, {"employees"}, Headers)

\* The requests of SpecAuth: one for each route of the programs.
AuthMsgs == PlainMsgs \cup RouteMsgs(scope)

NextAuth ==
    \/ PgInitDB
    \/ PgInitFails
    \/ RxCreateDatabase
    \/ RxAddCollections
    \/ Crash
    \/ Receive(MaxAuthReq, {client}, AuthMsgs)
    \/ \E s \in DOMAIN req : ExecList(s)
    \/ \E s \in DOMAIN req : ExecGet(s)
    \/ \E s \in DOMAIN req : ExecCreate(s)
    \/ \E s \in DOMAIN req : ExecUpsert(s)
    \/ \E s \in DOMAIN req : ExecDelete(s)
    \/ \E s \in DOMAIN req : ExecRxDelete(s)
    \/ \E s \in DOMAIN req : ExecPull(s)
    \/ \E s \in DOMAIN req : ExecPush(s)

SpecAuth == InitAuth /\ [][NextAuth]_vars

\* The request's Authorization header yields no token.
NoToken(r) == Falsy(TokenOf(r.hdr))

\* A secret is configured.
SecretSet == ~Falsy(secret)

\* C1: on a route guarded by the auth gate, a request without a token is
\* answered 401 and its handler does not run; with a secret configured, a token
\* that differs from it is answered 403 and the handler does not run, and a token
\* equal to it lets the request reach the route handler.
C1_AuthGate ==
    \A n \in DOMAIN req :
        LET r == req[n]
        IN r.guarded =>
             /\ NoToken(r) => r.status = 401 /\ r.pc = "done" /\ ~r.ran
             /\ (~NoToken(r) /\ SecretSet /\ TokenOf(r.hdr) # secret) =>
                   r.status = 403 /\ r.pc = "done" /\ ~r.ran
             /\ (~NoToken(r) /\ SecretSet /\ TokenOf(r.hdr) = secret) =>
                   r.ran /\ r.status \notin {401, 403}

\* C1 witness: with a secret configured, a guarded request carrying it has been
\* answered by its handler with records of the store.
C1_Witness ==
    \E n \in DOMAIN req :
        /\ req[n].guarded /\ SecretSet /\ TokenOf(req[n].hdr) = secret
        /\ req[n].ran /\ req[n].status = 200 /\ req[n].out.docs # {}

\* The routes that read or write records.
DataHandlers == {"list", "get", "create", "upsert", "delete", "pull", "push"}

\* C2: a request on a route that reads or writes records and that carries no
\* token is answered no record and writes no record.
C2_NoTokenNoAccess ==
    \A n \in DOMAIN req :
        (req[n].handler \in DataHandlers /\ NoToken(req[n])) =>
            req[n].out.docs = {} /\ lastWrite # n

(***************************************************************************)
(* SpecProbe: requests on names that are no collection, with and without   *)
(* the secret, at every stage of the start of the store.                   *)
(***************************************************************************)
InitProbe == InitOf(Variants, Secrets, {"employees"}, {NoHeader, GoodHeader})

\* The requests of SpecProbe: one for each route, on each unknown name.
ProbeMsgs == UNION {RouteMsgs(c) : c \in UnknownNames}

NextProbe ==
    \/ PgInitDB
    \/ PgInitFails
    \/ RxCreateDatabase
    \/ RxAddCollections
    \/ Crash
    \/ Receive(MaxReq, {client}, ProbeMsgs)

SpecProbe == InitProbe /\ [][NextProbe]_vars

\* The request names a collection that is none of the five kinds.
UnknownCollection(r) ==
    r.handler \in DataHandlers /\ KindOf(r.collection) \notin validCollections

\* C3: a request on a collection name outside the five kinds that the auth gate
\* has not turned away is answered 404, whatever the state of initialisation.
C3_UnknownIsNotFound ==
    \A n \in DOMAIN req :
        (UnknownCollection(req[n]) /\ req[n].pc = "done"
           /\ req[n].status \notin {401, 403}) => req[n].status = 404

(***************************************************************************)
(* Spec: clients that hold the secret work on the records of one           *)
(* collection, with every request the program routes.                      *)
(***************************************************************************)
Init == InitOf(Variants, {Text(<<"s">>)}, Scopes, {GoodHeader})

\* The name the sync program registers the collection of a kind under.
SyncName(c) == IF c = "timerecords" THEN "time_records" ELSE c

\* Bodies of the writes of Spec: every field, under each body id or none.
StoreBodies(c) == {WithId(BodyWith(c, BodyFields(c), 1), i) : i \in BodyIds(c)}

\* Push batches of Spec: up to MaxBatch versions of the document of one id, as
\* plain documents or as write rows.
StoreBatches(c) ==
    LET doc(k) == WithId(BodyWith(c, RequiredFields(c), k), Str(SeededId(c)))
    IN {Arr([k \in 1..n |-> PlainEntry(doc(k))]) : n \in 0..MaxBatch}
       \cup {Arr([k \in 1..n |-> WrappedEntry(doc(k), Null)]) : n \in 1..MaxBatch}

\* The requests of Spec: the writes the program that runs has routes for, on the
\* collection of the behaviour.
StoreMsgs ==
    IF variant = "RxSync"
    THEN {Msg("POST", <<"sync", SyncName(scope), "push">>, b) :
            b \in StoreBatches(SyncName(scope))}
    ELSE {Msg("POST", <<scope>>, b) : b \in StoreBodies(scope)}
         \cup {Msg("PUT", <<scope, i>>, b) : i \in ReqIds(scope), b \in StoreBodies(scope)}
         \cup {Msg("DELETE", <<scope, i>>, NoBody) : i \in ReqIds(scope)}

Next ==
    \/ PgInitDB
    \/ PgInitFails
    \/ RxCreateDatabase
    \/ RxAddCollections
    \/ Crash
    \/ Receive(MaxReq, {client}, StoreMsgs)
    \/ \E s \in DOMAIN req : ExecCreate(s)
    \/ \E s \in DOMAIN req : ExecUpsert(s)
    \/ \E s \in DOMAIN req : ExecDelete(s)
    \/ \E s \in DOMAIN req : ExecRxDelete(s)
    \/ \E s \in DOMAIN req : ExecPush(s)

Spec == Init /\ [][Next]_vars

\* C4: whatever creates, upserts, deletes and pushes have been applied, no
\* collection holds two different records with the same id.
C4_OneRecordPerId ==
    \A c \in DOMAIN db : \A r1, r2 \in db[c] : r1.id = r2.id => r1 = r2

\* C4 witness: a create whose id was already stored has been answered 500 and the
\* collection holds exactly one record with that id.
C4_Witness ==
    \E n \in DOMAIN req :
        /\ req[n].handler = "create" /\ req[n].pc = "done" /\ req[n].status = 500
        /\ HasPrimary(req[n].body)
        /\ Cardinality(RowsWithId(db[req[n].collection], req[n].body.id)) = 1

\* C5: once a PostgreSQL program has initialised its store and listens, the
\* settings table holds the record with id GLOBAL_SETTINGS.
C5_SingletonKept ==
    (IsPg(variant) /\ phase = "listening") =>
        RowsWithId(db["settings"], Str("GLOBAL_SETTINGS")) # {}

(***************************************************************************)
(* SpecPut: PUT and GET requests of clients that hold the secret, on the   *)
(* programs that have a PUT route, while the store's clock advances.       *)
(***************************************************************************)
InitPut == InitOf({"PgFull", "PgLite", "RxRest"}, {Text(<<"s">>)}, Scopes, {GoodHeader})

\* The id of the collection that initDB does not seed.
FreshId(c) == CHOOSE i \in ReqIds(c) : i # SeededId(c)

\* The requests of SpecPut. On the fresh id: a PUT of every field, PUTs of the
\* required fields alone with other values, the body naming the id or not, and a
\* GET. On the seeded id: a PUT of the required fields alone.
PutMsgs ==
    LET full == BodyWith(scope, BodyFields(scope), 1)
        sparse == BodyWith(scope, RequiredFields(scope), 2)
        fresh == FreshId(scope)
    IN {Msg("PUT", <<scope, fresh>>, WithId(full, Str(fresh)))}
       \cup {Msg("PUT", <<scope, fresh>>, WithId(sparse, i)) : i \in {Undef, Str(fresh)}}
       \cup {Msg("PUT", <<scope, SeededId(scope)>>, WithId(sparse, Undef)),
             Msg("GET", <<scope, fresh>>, NoBody)}

\* A PUT of a PostgreSQL program awaits its statement: the only states in which
\* the time the clock shows can come to be stored.
WriteAwaits == IsPg(variant) /\ \E s \in DOMAIN req : Awaiting(s, "upsert")

NextPut ==
    \/ PgInitDB
    \/ RxCreateDatabase
    \/ RxAddCollections
    \/ WriteAwaits /\ Tick
    \/ Receive(MaxReq, {client}, PutMsgs)
    \/ \E s \in DOMAIN req : ExecGet(s)
    \/ \E s \in DOMAIN req : ExecUpsert(s)

SpecPut == InitPut /\ [][NextPut]_vars

\* The id a PUT request's record is stored under.
PutTarget(v, r) == IF IsPg(v) THEN Or(r.body.id, Str(r.id)) ELSE r.body.id

\* The wire record a PUT request determines by itself. PostgreSQL programs: each
\* declared field as supplied (a date-time read back in the zone z of the
\* process), an absent employee flag false, absent breaks the empty list, any
\* other absent field null. RxDB program: the body as it is.
PutRecord(v, c, r, z) ==
    IF ~IsPg(v) THEN r.body
    ELSE [f \in ApiFields(v, c) |->
            IF f = "id" THEN PutTarget(v, r)
            ELSE IF r.body[f] # Undef
            THEN (IF f \in {"clockIn", "clockOut"}
                  THEN Str(Instants[WallClock(r.body[f].v) - z])
                  ELSE r.body[f])
            ELSE IF c = "employees" /\ f \in {"archived", "autoDeductLunch", "isTemp"}
            THEN Bool(FALSE)
            ELSE IF f = "breaks" THEN Arr(<<>>)
            ELSE Null]

\* The wire form of the records stored under an id.
StoredWire(d, c, idv) == WireDocs(variant, c, RowsWithId(d[c], idv))

\* A row as initDB seeds it.
IsSeedRow(c, row) == \E t \in 0..MaxClock : row \in SeedTable(variant, c, {}, t)

\* Request n is a PUT that has been answered 200.
PutDone(n) ==
    req[n].handler = "upsert" /\ req[n].pc = "done" /\ req[n].status = 200

\* C6: in every reachable state, every stored record is a seeded one or carries
\* in every wire field what one single answered PUT determines, and the record
\* under the id of the write applied last is the one that write determines: two
\* PUTs in flight for one id leave one record, that of the PUT applied last.
C6_LastWriteWins ==
    /\ \A c \in DOMAIN db : \A row \in db[c] :
          \/ IsSeedRow(c, row)
          \/ \E n \in DOMAIN req :
                /\ PutDone(n) /\ req[n].collection = c
                /\ WireDocs(variant, c, {row}) = {PutRecord(variant, c, req[n], tz)}
    /\ lastWrite # 0 =>
          LET r == req[lastWrite]
          IN StoredWire(db, r.collection, PutTarget(variant, r))
               = {PutRecord(variant, r.collection, r, tz)}

\* C6 witness: two PUTs with different bodies for one id have both been answered
\* 200, the one received first applied last (so it was in flight while the other
\* ran), and the store holds one record for the id.
C6_Witness ==
    /\ Len(req) >= 2 /\ PutDone(1) /\ PutDone(2) /\ lastWrite = 1
    /\ req[1].body # req[2].body
    /\ PutTarget(variant, req[1]) = PutTarget(variant, req[2])
    /\ Cardinality(RowsWithId(db[scope], PutTarget(variant, req[1]))) = 1

\* The store call of PUT request s is answered 200 in this step.
UpsertStep(s) ==
    /\ req[s].handler = "upsert" /\ req[s].pc = "await"
    /\ req'[s].pc = "done" /\ req'[s].status = 200

\* PUT requests a and b are the same call.
SameCall(a, b) ==
    /\ a.handler = "upsert" /\ b.handler = "upsert"
    /\ a.collection = b.collection /\ a.id = b.id /\ a.body = b.body

\* The store call of PUT request s is applied directly after the same call of
\* another request.
RepeatStep(s) ==
    /\ UpsertStep(s) /\ lastWrite # 0 /\ lastWrite # s
    /\ SameCall(req[lastWrite], req[s])

\* A stored row without its updated_at column.
DropUpdatedAt(row) == [col \in DOMAIN row \ {"updated_at"} |-> row[col]]

\* C7 as stated: applying the same upsert a second time in a row leaves the
\* store as the first application left it.
C7_SameStoredRecord ==
    [][\A s \in DOMAIN req : RepeatStep(s) => db' = db]_vars

\* C7: applying the same upsert a second time in a row leaves every stored
\* record as the first application left it in all columns but updated_at, hence
\* in every wire field, and is answered with the same record.
C7_SameButUpdatedAt ==
    [][\A s \in DOMAIN req : RepeatStep(s) =>
          /\ \A c \in DOMAIN db :
                /\ {DropUpdatedAt(row) : row \in db'[c]} = {DropUpdatedAt(row) : row \in db[c]}
                /\ WireDocs(variant, c, db'[c]) = WireDocs(variant, c, db[c])
                /\ Cardinality(db'[c]) = Cardinality(db[c])
          /\ req'[s].out = req[lastWrite].out]_vars

\* C7 witness: the same PUT has been applied twice at different times of the
\* store's clock, and the record's updated_at is later than its created_at.
C7_Witness ==
    /\ Len(req) >= 2 /\ PutDone(1) /\ PutDone(2) /\ SameCall(req[1], req[2])
    /\ \E row \in RowsWithId(db[scope], PutTarget(variant, req[1])) :
          /\ "updated_at" \in DOMAIN row
          /\ row["created_at"] = Timestamp(0) /\ row["updated_at"] = Timestamp(1)

\* C8: a PUT answered 200 onto an id that holds a record leaves under that id
\* the record the request determines by itself, in every wire field, and answers
\* with it; no value of the previous record is kept.
C8_UpsertReplaces ==
    [][\A s \in DOMAIN req :
          LET c == req[s].collection
              idv == PutTarget(variant, req[s])
          IN (UpsertStep(s) /\ RowsWithId(db[c], idv) # {}) =>
                /\ StoredWire(db', c, idv) = {PutRecord(variant, c, req[s], tz)}
                /\ req'[s].out.docs = {PutRecord(variant, c, req[s], tz)}]_vars

\* C8 witness: a PUT without abbreviation onto the seeded location LOC001 has
\* been answered 200 and the stored abbreviation, "MO" before, is null.
C8_Witness ==
    /\ scope = "locations" /\ IsPg(variant)
    /\ \E n \in DOMAIN req :
          /\ PutDone(n) /\ lastWrite = n /\ req[n].id = "LOC001"
          /\ req[n].body.abbreviation = Undef /\ req[n].body.id = Undef
          /\ \E row \in db["locations"] :
                row.id = Str("LOC001") /\ row.abbreviation = Null

\* The body of a PUT carries every required field but the id.
SuppliesRequired(r) ==
    \A f \in RequiredFields(r.collection) \ {"id"} : r.body[f] # Undef

\* C9: the store call of a PUT whose body carries no id (and every other
\* required field) is answered 200 and leaves the record under the path id.
C9_PathIdUsed ==
    [][\A s \in DOMAIN req :
          (req[s].handler = "upsert" /\ req[s].pc = "await" /\ req'[s].pc = "done"
             /\ req[s].body.id = Undef /\ SuppliesRequired(req[s])) =>
                /\ req'[s].status = 200
                /\ StoredWire(db', req[s].collection, Str(req[s].id)) # {}]_vars

\* The PUT requests C10 is settled for. PostgreSQL programs: the body carries the
\* required fields, and no id or the path id. RxDB program: the body carries the
\* path id.
PlainPut(v, r) ==
    /\ r.handler = "upsert"
    /\ IF IsPg(v) THEN SuppliesRequired(r) /\ r.body.id \in {Undef, Str(r.id)}
       ELSE r.body.id = Str(r.id)

\* The store call of GET request g is answered in this step.
GetStep(g) ==
    req[g].handler = "get" /\ req[g].pc = "await" /\ req'[g].pc = "done"

\* The record under the path id of PUT request p was created by p: initDB does
\* not seed the id and no other request has written it.
CreatedBy(p) ==
    /\ \A t \in 0..MaxClock :
          RowsWithId(SeedTable(variant, req[p].collection, {}, t), Str(req[p].id)) = {}
    /\ \A n \in DOMAIN req \ {p} :
          ~(PutDone(n) /\ req[n].collection = req[p].collection
              /\ PutTarget(variant, req[n]) = Str(req[p].id))

\* GET request g is answered in this step, directly after the write of a PUT (of
\* PlainPut) that created the record under the id g asks for.
GetAfterCreate(g) ==
    /\ GetStep(g) /\ lastWrite # 0
    /\ PlainPut(variant, req[lastWrite]) /\ CreatedBy(lastWrite)
    /\ req[lastWrite].collection = req[g].collection
    /\ req[lastWrite].id = req[g].id

\* The record C10 as stated expects after a PUT: the supplied fields, every
\* absent field null, absent breaks the empty list.
PutRecordAsClaimed(v, c, r) ==
    [f \in ApiFields(v, c) |->
        IF f = "id" THEN Str(r.id)
        ELSE IF r.body[f] # Undef THEN r.body[f]
        ELSE IF f = "breaks" THEN Arr(<<>>)
        ELSE Null]

InitRest == InitOf({"PgFull", "PgLite", "RxRest"}, {Text(<<"s">>)}, Scopes, {GoodHeader})

\* The requests of SpecRest, all on the id initDB does not seed: a POST of every
\* field, a POST of the required fields alone with other values, a GET and a
\* DELETE.
RestMsgs ==
    LET fresh == FreshId(scope)
    IN {Msg("POST", <<scope>>, WithId(BodyWith(scope, BodyFields(scope), 1), Str(fresh))),
        Msg("POST", <<scope>>, WithId(BodyWith(scope, RequiredFields(scope), 2), Str(fresh))),
        Msg("GET", <<scope, fresh>>, NoBody),
        Msg("DELETE", <<scope, fresh>>, NoBody)}

NextRest ==
    \/ PgInitDB
    \/ RxCreateDatabase
    \/ RxAddCollections
    \/ Receive(MaxRestReq, {client}, RestMsgs)
    \/ \E s \in DOMAIN req : ExecGet(s)
    \/ \E s \in DOMAIN req : ExecCreate(s)
    \/ \E s \in DOMAIN req : ExecDelete(s)
    \/ \E s \in DOMAIN req : ExecRxDelete(s)

SpecRest == InitRest /\ [][NextRest]_vars

\* The store call of POST request s is answered in this step.
CreateStep(s) ==
    req[s].handler = "create" /\ req[s].pc = "await" /\ req'[s].pc = "done"

\* The body of POST request r names an id and, for a PostgreSQL program, every
\* NOT NULL field.
IsRecord(v, r) == HasPrimary(r.body) /\ (IsPg(v) => SuppliesRequired(r))

\* C11: the store call of a POST of a record whose id the collection does not
\* hold is answered 201 with the record the request determines, which is the one
\* then stored under the id; a GET of the id answered next, with no write in
\* between, is answered 200 with the same record.
C11_CreateThenGet ==
    [][/\ \A s \in DOMAIN req :
             LET c == req[s].collection
             IN (CreateStep(s) /\ IsRecord(variant, req[s])
                   /\ RowsWithId(db[c], req[s].body.id) = {}) =>
                     /\ req'[s].status = 201
                     /\ req'[s].out.docs = {PutRecord(variant, c, req[s], tz)}
                     /\ StoredWire(db', c, req[s].body.id) = req'[s].out.docs
       /\ \A g \in DOMAIN req :
             (GetStep(g) /\ lastWrite # 0 /\ req[lastWrite].handler = "create"
                /\ req[lastWrite].collection = req[g].collection
                /\ req[lastWrite].body.id = Str(req[g].id)) =>
                  /\ req'[g].status = 200
                  /\ req'[g].out = req[lastWrite].out]_vars

\* C11 witness: a POST that leaves out a field has been answered 201 and the GET
\* of its id received after it has been answered 200 with the same record.
C11_Witness ==
    \E p, g \in DOMAIN req :
        /\ p < g /\ lastWrite = p
        /\ req[p].handler = "create" /\ req[p].pc = "done" /\ req[p].status = 201
        /\ \E f \in DOMAIN req[p].body : req[p].body[f] = Undef
        /\ req[g].handler = "get" /\ req[g].pc = "done" /\ req[g].status = 200
        /\ req[g].out.docs = req[p].out.docs /\ req[g].out.docs # {}

\* C12: the store call of a POST whose id the collection holds is not answered
\* 201 and leaves the store as it was.
C12_ConflictRejected ==
    [][\A s \in DOMAIN req :
          (CreateStep(s) /\ RowsWithId(db[req[s].collection], req[s].body.id) # {}) =>
              req'[s].status # 201 /\ db' = db]_vars

\* C12 witness: a POST with other values for the id of a record an earlier POST
\* created has been answered 500, and the record is the one the earlier POST was
\* answered with.
C12_Witness ==
    \E n \in DOMAIN req :
        /\ req[n].handler = "create" /\ req[n].pc = "done" /\ req[n].status = 500
        /\ lastWrite # 0 /\ lastWrite # n /\ req[lastWrite].handler = "create"
        /\ req[lastWrite].body.id = req[n].body.id
        /\ req[lastWrite].body # req[n].body
        /\ StoredWire(db, scope, req[n].body.id) = req[lastWrite].out.docs
        /\ req[lastWrite].out.docs # {}

\* DELETE request s is answered in this step.
DeleteAnswered(s) ==
    req[s].handler = "delete" /\ req[s].pc = "await" /\ req'[s].pc = "done"

\* C13: a DELETE is answered 200 {ok:true} exactly when the store holds a record
\* under the id and 404 exactly when it holds none, and in both cases the store
\* holds none afterwards; a GET of an id under which the store holds no record is
\* answered 404.
C13_DeleteRemoves ==
    [][/\ \A s \in DOMAIN req :
             LET present == RowsWithId(db[req[s].collection], Str(req[s].id)) # {}
             IN DeleteAnswered(s) =>
                  /\ (req'[s].status = 200 /\ req'[s].out = OkOut) <=> present
                  /\ (req'[s].status = 404) <=> ~present
                  /\ RowsWithId(db'[req[s].collection], Str(req[s].id)) = {}
       /\ \A g \in DOMAIN req :
             (GetStep(g) /\ RowsWithId(db[req[g].collection], Str(req[g].id)) = {}) =>
                  req'[g].status = 404]_vars

\* The wire record of the collection a request body carries.
WireRecord(v, c, body) == [f \in ApiFields(v, c) |-> body[f]]

\* A wire record is field-complete: every field of the collection has a value.
FieldComplete(rec) == \A f \in DOMAIN rec : rec[f] # Undef

\* The wire record a handler sends for the row it stores for a request body: the
\* values array of the POST or PUT handler, the row the statement makes of it,
\* dbToApi and res.json.
RoundTrip(v, r, t, z) ==
    LET c == r.collection
        vals == IF r.handler = "create" THEN PostValues(v, c, r.body)
                ELSE PutValues(v, c, r.body, r.id)
    IN ResJson(dbToApi(v, NewRow(v, c, vals, t), c), z)

\* C14: in the PostgreSQL programs, the storage form the POST and PUT handlers
\* build of a field-complete wire record maps back to that record.
C14_RoundTrip ==
    \A n \in DOMAIN req :
        LET r == req[n]
        IN (IsPg(variant) /\ r.handler \in {"create", "upsert"}
              /\ r.collection \in validCollections
              /\ FieldComplete(WireRecord(variant, r.collection, r.body))) =>
                 RoundTrip(variant, r, now, tz) = WireRecord(variant, r.collection, r.body)

(***************************************************************************)
(* SpecSync: pushes and pulls of sync clients on one collection of the     *)
(* sync program.                                                           *)
(***************************************************************************)
InitSync == InitOf({"RxSync"}, {Undef}, Scopes, {NoHeader})

\* Version k of the document of id i.
SyncDoc(c, i, k) == WithId(BodyWith(c, RequiredFields(c), k), Str(i))

\* A checkpoint as an earlier pull answered it, before the clock of this run.
Checkpoint(i) == [t |-> "object", v |-> [id |-> i, updatedAt |-> -1]]

\* Push batches of SpecSync: up to MaxBatch versions of one document, a write row
\* for it with no assumed state or one the store never holds, and a batch of two
\* documents.
SyncBatches(c) ==
    LET x == SeededId(c)
        y == FreshId(c)
    IN {Arr([k \in 1..n |-> PlainEntry(SyncDoc(c, x, k))]) : n \in 1..MaxBatch}
       \cup {Arr(<<WrappedEntry(SyncDoc(c, x, 2), a)>>) :
               a \in {Null, [t |-> "object", v |-> SyncDoc(c, y, 2)]}}
       \cup {Arr(<<PlainEntry(SyncDoc(c, x, 1)), PlainEntry(SyncDoc(c, y, 1))>>)}

\* Pull bodies of SpecSync: no checkpoint or an earlier one, no limit or limit 1.
SyncPulls(c) ==
    {[checkpoint |-> ck, limit |-> l] :
        ck \in {Null, Checkpoint(SeededId(c))}, l \in {Undef, Num(1)}}

SyncMsgs ==
    LET c == SyncName(scope)
    IN {Msg("POST", <<"sync", c, "push">>, b) : b \in SyncBatches(c)}
       \cup {Msg("POST", <<"sync", c, "pull">>, b) : b \in SyncPulls(c)}

NextSync ==
    \/ RxCreateDatabase
    \/ RxAddCollections
    \/ Receive(MaxReq, {client}, SyncMsgs)
    \/ \E s \in DOMAIN req : ExecPull(s)
    \/ \E s \in DOMAIN req : ExecPush(s)

SpecSync == InitSync /\ [][NextSync]_vars

\* The store call of pull request s is answered in this step.
PullStep(s) ==
    req[s].handler = "pull" /\ req[s].pc = "await" /\ req'[s].pc = "done"

\* C15: the store call of a pull is answered 200 with exactly the records the
\* collection holds, whatever checkpoint and limit the request carries.
C15_FullSnapshot ==
    [][\A s \in DOMAIN req :
          PullStep(s) =>
              /\ req'[s].status = 200 /\ req'[s].out.kind = "docs"
              /\ req'[s].out.docs = db[req[s].collection]]_vars

\* C15 witness: a pull with an earlier checkpoint and limit 1 has been answered
\* with the two records the collection holds, the checkpoint's own among them.
C15_Witness ==
    \E n \in DOMAIN req :
        /\ req[n].handler = "pull" /\ req[n].pc = "done" /\ req[n].status = 200
        /\ req[n].body.checkpoint # Null /\ req[n].body.limit = Num(1)
        /\ Cardinality(req[n].out.docs) = 2
        /\ \E d \in req[n].out.docs : d.id.v = req[n].body.checkpoint.v.id

\* The documents of the entries of a push body, in batch order.
BatchDocs(b) == [k \in 1..Len(b.v) |-> PushDoc(b.v[k])]

\* The ids of a sequence of documents.
BatchIds(docs) == {docs[k].id : k \in 1..Len(docs)}

\* The last document of a sequence with a given id.
LastWithId(docs, idv) ==
    docs[CHOOSE k \in 1..Len(docs) :
            docs[k].id = idv /\ \A j \in (k + 1)..Len(docs) : docs[j].id # idv]

\* Push request s applies an entry in this step.
PushApplies(s) ==
    /\ req[s].handler = "push" /\ req[s].pc = "await" /\ req'[s] # req[s]
    /\ ~(req'[s].pc = "done" /\ req'[s].status = 500)

\* Push request s is answered {ok:true} in this step.
PushAnswered(s) ==
    /\ req[s].handler = "push" /\ req[s].pc = "await"
    /\ req'[s].pc = "done" /\ req'[s].status = 200

\* The documents push request n has applied so far.
AppliedDocs(n) ==
    IF req[n].handler # "push" THEN {}
    ELSE LET docs == BatchDocs(req[n].body)
             applied == IF req[n].pc = "done" /\ req[n].status = 200 THEN Len(docs)
                        ELSE req[n].k - 1
         IN {docs[j] : j \in 1..applied}

\* C16 as stated: when a push is answered {ok:true}, the store holds under every
\* id of the batch the last batch entry with that id.
C16_LastEntryStored ==
    [][\A s \in DOMAIN req :
          PushAnswered(s) =>
              LET docs == BatchDocs(req[s].body)
              IN \A idv \in BatchIds(docs) :
                    RowsWithId(db'[req[s].collection], idv) = {LastWithId(docs, idv)}]_vars

\* C16: every entry a push applies is stored under its id in place of whatever
\* was stored there, whatever assumed state it carries, and no other record
\* changes; when the push is answered {ok:true}, the store holds under every id
\* of the batch one record, the last batch entry with that id or an entry with
\* that id another push has applied.
C16_PushUpserts ==
    [][\A s \in DOMAIN req :
          LET c == req[s].collection
          IN /\ PushApplies(s) =>
                  LET doc == PushDoc(req[s].body.v[req[s].k])
                  IN /\ RowsWithId(db'[c], doc.id) = {doc}
                     /\ {r \in db'[c] : r.id # doc.id} = {r \in db[c] : r.id # doc.id}
             /\ PushAnswered(s) =>
                  LET docs == BatchDocs(req[s].body)
                      others == UNION {AppliedDocs(n) : n \in DOMAIN req \ {s}}
                  IN \A idv \in BatchIds(docs) :
                        /\ Cardinality(RowsWithId(db'[c], idv)) = 1
                        /\ RowsWithId(db'[c], idv) \subseteq
                              {LastWithId(docs, idv)} \cup {d \in others : d.id = idv}]_vars

\* C16 witness: a write row whose assumed state is not what the store held has
\* been pushed onto a record an earlier push stored, the push has been answered
\* {ok:true} and the store holds the row's newDocumentState.
C16_Witness ==
    \E m, n \in DOMAIN req :
        /\ m # n /\ lastWrite = n
        /\ req[m].handler = "push" /\ req[m].pc = "done" /\ req[m].status = 200
        /\ req[n].handler = "push" /\ req[n].pc = "done" /\ req[n].status = 200
        /\ LET e == req[n].body.v[1]
               old == LastWithId(BatchDocs(req[m].body), PushDoc(e).id)
           IN /\ ~Falsy(e.newDocumentState) /\ ~Falsy(e.assumedMasterState)
              /\ PushDoc(e).id \in BatchIds(BatchDocs(req[m].body))
              /\ e.assumedMasterState.v # old /\ old # PushDoc(e)
              /\ RowsWithId(db[req[n].collection], PushDoc(e).id) = {PushDoc(e)}

(***************************************************************************)
(* Claims on the routes without data and on the open mode of the auth      *)
(* gate, under SpecAuth.                                                   *)
(***************************************************************************)
\* The programs of src/server.js, which exports their app.
ServerJs == {"PgFull", "RxRest"}

\* Request r is a sync pull on one of the five collection kinds.
IsSyncPull(r) ==
    /\ r.method = "POST" /\ Len(r.path) = 3
    /\ r.path[1] = "sync" /\ r.path[3] = "pull"
    /\ KindOf(r.path[2]) \in validCollections

\* C17: on the programs of server.js, a sync pull with checkpoint null and no
\* Authorization header is answered 200 with documents.
C17_PullOnServerJs ==
    \A n \in DOMAIN req :
        (variant \in ServerJs /\ IsSyncPull(req[n]) /\ req[n].hdr = NoHeader
           /\ req[n].body.checkpoint = Null /\ req[n].pc = "done") =>
              req[n].status = 200 /\ req[n].out.kind = "docs"

\* C18: on the programs of server.js, GET / without Authorization header is
\* answered 200 with the status 'TimeKiosk Sync Server Running'.
C18_StatusMessage ==
    \A n \in DOMAIN req :
        (variant \in ServerJs /\ req[n].method = "GET" /\ req[n].path = <<>>
           /\ req[n].hdr = NoHeader /\ req[n].pc = "done") =>
              /\ req[n].status = 200
              /\ req[n].out.docs = {[status |-> Str("TimeKiosk Sync Server Running")]}

\* C19: in every program, GET / and GET /time without Authorization header do
\* not pass the auth gate and are answered 200.
C19_HealthAndTimeOpen ==
    \A n \in DOMAIN req :
        (req[n].method = "GET" /\ req[n].path \in {<<>>, <<"time">>}
           /\ req[n].hdr = NoHeader /\ req[n].pc = "done") =>
              ~req[n].guarded /\ req[n].status = 200

\* C20: with no secret configured, a request on a guarded route reaches its
\* handler exactly when its Authorization header yields a non-empty token, and
\* is answered 401 (never 403) when it yields none.
C20_OpenMode ==
    \A n \in DOMAIN req :
        LET r == req[n]
        IN (r.guarded /\ ~SecretSet) =>
             /\ r.ran <=> ~NoToken(r)
             /\ NoToken(r) => r.pc = "done" /\ r.status = 401
             /\ ~NoToken(r) => r.status \notin {401, 403}

\* C20 witness: with no secret configured, a guarded request whose token is "w"
\* has been answered 200 by its handler.
C20_Witness ==
    \E n \in DOMAIN req :
        /\ req[n].guarded /\ ~SecretSet /\ TokenOf(req[n].hdr) = Text(<<"w">>)
        /\ req[n].ran /\ req[n].pc = "done" /\ req[n].status = 200

(***************************************************************************)
(* SpecSyncLive: SpecSync with the scheduling of the Node event loop.  A   *)
(* promise that can settle does settle: the two awaits of initDB and the   *)
(* store call of every request in flight are taken in the end.  Nothing    *)
(* obliges a client to send a request.                                     *)
(***************************************************************************)
SpecSyncLive ==
    /\ SpecSync
    /\ WF_vars(RxCreateDatabase)
    /\ WF_vars(RxAddCollections)
    /\ \A s \in 1..MaxReq : WF_vars(s \in DOMAIN req /\ ExecPull(s))
    /\ \A s \in 1..MaxReq : WF_vars(s \in DOMAIN req /\ ExecPush(s))

\* C21 as stated: every request the server has accepted is answered in the end.
\* (A request that was answered keeps its one response, and a failed store call
\* is answered 500 with an error body: those parts hold; the sync handlers read
\* db[collection] outside their try block, and that read can throw.)
C21_EveryRequestAnswered ==
    \A n \in 1..MaxReq :
        [](Len(req) >= n => <>(Len(req) >= n /\ req[n].pc = "done"))

\* C22 as stated: a request is accepted, and a handler runs, only when initDB has
\* completed (the program listens only after it), and a program whose initDB
\* did not complete exits without having accepted a request.
C22_ListenAfterInit ==
    [][/\ req' # req => dbState = "ready"
       /\ (phase' = "exited" /\ dbState' # "ready") => req' = <<>>]_vars

(***************************************************************************)
(* SpecInit: a PostgreSQL program is stopped and started again on the      *)
(* database it left, between requests that delete sample employees and     *)
(* rewrite a sample location.                                              *)
(***************************************************************************)
InitInit == InitOf({"PgFull", "PgLite"}, {Text(<<"s">>)}, {"employees"}, {GoodHeader})

\* The process ends (stopped, or exited after a failed initDB) and the program
\* is started again: the new process has no request; the tables are those the
\* old one left in PostgreSQL.
Restart ==
    /\ IsPg(variant) /\ phase # "starting"
    /\ phase' = "starting"
    /\ dbState' = "undefined"
    /\ req' = <<>>
    /\ lastWrite' = 0
    /\ UNCHANGED <<tz, variant, secret, db, now, scope, client>>

\* The requests of SpecInit: the deletion of each sample employee and a PUT that
\* rewrites the first sample location.
InitMsgs ==
    {Msg("DELETE", <<"employees", i>>, NoBody) : i \in {"EMP001", "EMP002", "EMP003"}}
    \cup {Msg("PUT", <<"locations", "LOC001">>,
              WithId(BodyWith("locations", BodyFields("locations"), 2), Str("LOC001")))}

NextInit ==
    \/ PgInitDB
    \/ PgInitFails
    \/ Restart
    \/ Receive(MaxReq, {client}, InitMsgs)
    \/ \E s \in DOMAIN req : ExecUpsert(s)
    \/ \E s \in DOMAIN req : ExecDelete(s)

SpecInit == InitInit /\ [][NextInit]_vars

\* initDB resolves in this step.
InitStep == phase = "starting" /\ phase' = "listening"

\* C23 as stated: initDB changes the store only when every table is empty, keeps
\* every row the store holds, and run once more gives the same store.
C23_SeedOnlyWhenEmpty ==
    [][InitStep =>
          /\ db' # db => \A c \in DOMAIN db : db[c] = {}
          /\ \A c \in DOMAIN db : db[c] \subseteq db'[c]
          /\ initDB(variant, db', now) = db']_vars

\* The parts of C23 that hold: initDB keeps every row the store holds, and run
\* once more gives the same store.
C23_ExistingRowsKept ==
    [][InitStep =>
          /\ \A c \in DOMAIN db : db[c] \subseteq db'[c]
          /\ initDB(variant, db', now) = db']_vars

(***************************************************************************)
(* SpecPush: pushes with an entry the store rejects, next to pulls, on one *)
(* collection of the sync program.                                         *)
(***************************************************************************)
\* A document without primary key: upsert rejects it.
NoKeyDoc(c) == WithId(BodyWith(c, RequiredFields(c), 1), Undef)

\* A batch whose k-th entry is rejected: k-1 versions of the document of one id,
\* the document without primary key, then a document of another id.
FailingBatch(c, k) ==
    Arr([j \in 1..(k + 1) |->
            IF j < k THEN PlainEntry(SyncDoc(c, SeededId(c), j))
            ELSE IF j = k THEN PlainEntry(NoKeyDoc(c))
            ELSE PlainEntry(SyncDoc(c, FreshId(c), 1))])

\* The requests of SpecPush: a failing batch for each position up to MaxBatch, a
\* batch of two documents, and a pull.
PushMsgs ==
    LET c == SyncName(scope)
    IN {Msg("POST", <<"sync", c, "push">>, FailingBatch(c, k)) : k \in 1..MaxBatch}
       \cup {Msg("POST", <<"sync", c, "push">>,
                 Arr(<<PlainEntry(SyncDoc(c, SeededId(c), 1)),
                       PlainEntry(SyncDoc(c, FreshId(c), 1))>>)),
             Msg("POST", <<"sync", c, "pull">>, [checkpoint |-> Null, limit |-> Undef])}

NextPush ==
    \/ RxCreateDatabase
    \/ RxAddCollections
    \/ Receive(MaxReq, {client}, PushMsgs)
    \/ \E s \in DOMAIN req : ExecPull(s)
    \/ \E s \in DOMAIN req : ExecPush(s)

SpecPush == InitSync /\ [][NextPush]_vars

\* The upsert of the current entry of push request s settles in this step.
PushStep(s) == req[s].handler = "push" /\ req[s].pc = "await" /\ req'[s] # req[s]

\* C24: when the upsert of the k-th entry of a push fails, the push is answered
\* 500 with an error body in that step and the store stays as it is, the
\* entries before k applied; an answered push takes no further step, and the store
\* changes only by the upsert of the current entry of a push in flight, so no
\* entry after k is applied.
C24_PushNotAtomic ==
    [][/\ \A s \in DOMAIN req :
            /\ (PushStep(s) /\ ~HasPrimary(BatchDocs(req[s].body)[req[s].k])) =>
                  /\ req'[s] = Answer(req[s], 500, ErrorOut)
                  /\ db' = db
            /\ req[s].pc = "done" => req'[s] = req[s]
       /\ db' # db =>
            \E s \in DOMAIN req :
                /\ PushStep(s)
                /\ db' = [db EXCEPT ![req[s].collection] =
                            RxUpsert(@, BatchDocs(req[s].body)[req[s].k]).table]]_vars

\* C24 witness: a push has been answered 500 at its second entry; the store holds
\* its first entry and not its third, and a pull has been answered with the
\* first entry alone.
C24_Witness ==
    \E p, q \in DOMAIN req :
        LET docs == BatchDocs(req[p].body)
        IN /\ req[p].handler = "push" /\ req[p].pc = "done" /\ req[p].status = 500
           /\ req[p].k = 2 /\ Len(docs) = 3
           /\ docs[1] \in db[req[p].collection]
           /\ docs[3] \notin db[req[p].collection]
           /\ req[q].handler = "pull" /\ req[q].pc = "done"
           /\ req[q].out.docs = {docs[1]}

(***************************************************************************)
(* SpecFrame: an employee is created and deleted while a time record       *)
(* refers to it, in the three programs with the REST routes.               *)
(***************************************************************************)
InitFrame ==
    InitOf({"PgFull", "PgLite", "RxRest"}, {Text(<<"s">>)}, {"employees"}, {GoodHeader})

\* The employee the time record of SpecFrame refers to.
FrameEmployee == FreshId("employees")

\* The requests of SpecFrame: the creation and the deletion of one employee, a
\* PUT on a sample employee, and the PUT of a time record of the first.
FrameMsgs ==
    LET emp(i, k) == WithId(BodyWith("employees", RequiredFields("employees"), k), Str(i))
        rec == [WithId(BodyWith("timerecords", RequiredFields("timerecords"), 1),
                       Str("TR001")) EXCEPT !.employeeId = Str(FrameEmployee)]
    IN {Msg("POST", <<"employees">>, emp(FrameEmployee, 1)),
        Msg("PUT", <<"employees", SeededId("employees")>>, emp(SeededId("employees"), 2)),
        Msg("DELETE", <<"employees", FrameEmployee>>, NoBody),
        Msg("PUT", <<"timerecords", "TR001">>, rec)}

NextFrame ==
    \/ PgInitDB
    \/ PgInitFails
    \/ RxCreateDatabase
    \/ RxAddCollections
    \/ Receive(MaxRestReq, {client}, FrameMsgs)
    \/ \E s \in DOMAIN req : ExecCreate(s)
    \/ \E s \in DOMAIN req : ExecUpsert(s)
    \/ \E s \in DOMAIN req : ExecDelete(s)
    \/ \E s \in DOMAIN req : ExecRxDelete(s)

SpecFrame == InitFrame /\ [][NextFrame]_vars

\* A store call of create, upsert or delete request s settles in this step.
WriteStep(s) ==
    /\ req[s].handler \in {"create", "upsert", "delete"}
    /\ req[s].pc = "await" /\ req'[s] # req[s]

\* The id a write request is on.
WriteTarget(v, r) ==
    CASE r.handler = "create" -> r.body.id
      [] r.handler = "upsert" -> PutTarget(v, r)
      [] r.handler = "delete" -> Str(r.id)

\* The store without the records of one id of one collection.
Others(d, c, idv) ==
    [t \in DOMAIN d |-> IF t = c THEN {row \in d[t] : row.id # idv} ELSE d[t]]

\* The time records of the store that refer to an employee id.
RecordsOf(d, e) ==
    {row \in d["timerecords"] :
        (IF IsPg(variant) THEN row.employee_id ELSE row.employeeId) = Str(e)}

\* C25: a store call of a create, upsert or delete request leaves every record
\* other than those of the request's id in its collection unchanged, in that
\* collection and in every other one, and the store changes in no other step.
C25_Frame ==
    [][/\ \A s \in DOMAIN req :
            WriteStep(s) =>
                Others(db', req[s].collection, WriteTarget(variant, req[s]))
                  = Others(db, req[s].collection, WriteTarget(variant, req[s]))
       /\ (db' # db /\ phase = "listening") => \E s \in DOMAIN req : WriteStep(s)]_vars

\* C25 witness: the deletion of an employee has been answered 200, no employee
\* of that id is stored, and a time record that refers to it is.
C25_Witness ==
    \E n \in DOMAIN req :
        /\ req[n].handler = "delete" /\ req[n].collection = "employees"
        /\ req[n].pc = "done" /\ req[n].status = 200
        /\ RowsWithId(db["employees"], Str(req[n].id)) = {}
        /\ RecordsOf(db, req[n].id) # {}

\* The body of PUT request r carries an id other than the one of its path.
OtherBodyId(r) ==
    r.handler = "upsert" /\ r.body.id # Undef /\ r.body.id # Str(r.id)

\* C26: in the PostgreSQL programs, when the store call of a PUT whose body
\* carries an id other than the path id is answered 200, the store holds under
\* the body id exactly the record of the request, and under the path id what it
\* held before (nothing, if it held nothing).
C26_BodyIdWins ==
    [][\A s \in DOMAIN req :
          (UpsertStep(s) /\ IsPg(variant) /\ OtherBodyId(req[s])) =>
              LET r == req[s]
                  c == r.collection
              IN /\ StoredWire(db', c, r.body.id) = {PutRecord(variant, c, r, tz)}
                 /\ RowsWithId(db'[c], Str(r.id)) = RowsWithId(db[c], Str(r.id))]_vars

\* C26 witness: a PostgreSQL program has answered 200 a PUT on a path id that is
\* not stored with the id of a stored record in its body; the record of the
\* request is stored under the body id and nothing under the path id.
C26_Witness ==
    \E n \in DOMAIN req :
        LET r == req[n]
        IN /\ IsPg(variant) /\ OtherBodyId(r) /\ r.pc = "done" /\ r.status = 200
           /\ r.body.id = Str(SeededId(r.collection))
           /\ RowsWithId(db[r.collection], Str(r.id)) = {}
           /\ StoredWire(db, r.collection, r.body.id) = {PutRecord(variant, r.collection, r, tz)}

\* C27: when the store call of a pull is answered, the documents are those the
\* collection holds, whatever checkpoint the request carries; the checkpoint
\* answered is the greatest id among them with the time of the answer when there
\* are any, and the checkpoint of the request when there are none.
C27_Checkpoint ==
    [][\A s \in DOMAIN req :
          PullStep(s) =>
              LET docs == req'[s].out.docs
                  ck == req'[s].out.checkpoint
              IN /\ docs = db[req[s].collection]
                 /\ docs # {} =>
                      /\ ck.t = "object" /\ ck.v.updatedAt = now
                      /\ \E d \in docs :
                            /\ ck.v.id = d.id.v
                            /\ \A e \in docs : IdRank(e.id) <= IdRank(d.id)
                 /\ docs = {} => ck = req[s].body.checkpoint]_vars

\* C27 witness: a pull that carried the checkpoint of the first of two stored
\* documents has been answered with both and with the id of the second as
\* checkpoint, under a later time than the one it sent.
C27_Witness ==
    \E n \in DOMAIN req :
        LET r == req[n]
        IN /\ r.handler = "pull" /\ r.pc = "done" /\ r.status = 200
           /\ r.body.checkpoint # Null
           /\ Cardinality(r.out.docs) = 2
           /\ \E d \in r.out.docs : d.id.v = r.body.checkpoint.v.id
           /\ r.out.checkpoint.v.id # r.body.checkpoint.v.id
           /\ r.out.checkpoint.v.updatedAt > r.body.checkpoint.v.updatedAt

====
